---------------------------- MODULE Spec2Model ----------------------------
(***************************************************************************)
(* Model of the agent payment platform's services.  Every service is a     *)
(* separate FastAPI application (src/cmd/<service>/main.py) that keeps its *)
(* records in a module-level dict; a handler is one action.  Handlers are  *)
(* taken as whole steps (calls arrive one after the other), except under   *)
(* SpecLedgerThreads, where the posts of the ledger run on worker threads  *)
(* and interleave between the duplicate check and the write.               *)
(*                                                                         *)
(*   Optional[T]   None is <<>>, a present value v is <<v>>                *)
(*   float amounts whole numbers                                           *)
(*   dict          a function on the set of its keys; for ledger_db the    *)
(*                 insertion order of the keys is kept in ledger_order     *)
(***************************************************************************)
EXTENDS Integers, Sequences, FiniteSets, TLC

VARIABLES
    ledger_db,      \* src/cmd/ledger/main.py:22   entry_id -> LedgerEntry
    ledger_order,   \* insertion order of ledger_db's keys (a dict keeps it)
    consents_db,    \* src/cmd/consent/main.py:28  id -> Consent
    orchestration_db, \* src/cmd/orchestration/main.py:20  workflow_id -> OrchestrationStatus
    in_flight,      \* per worker thread: the ledger post it is in the middle of
    request,        \* the last call received: [op, arg]
    response        \* what that call returned: [status, body] or [status, detail]

vars == <<ledger_db, ledger_order, consents_db, orchestration_db, in_flight, request, response>>

---------------------------------------------------------------------------
(* Bounds of the model.                                                    *)

NumEntryIds == 2
NumConsentIds == 2
NumThreads == 2

---------------------------------------------------------------------------
(* Values.                                                                 *)

None == <<>>
Some(v) == <<v>>

\* An empty dict, and a dict with d[k] = v set.
EmptyDict == [k \in {} |-> None]
DictSet(d, k, v) == [x \in DOMAIN d \cup {k} |-> IF x = k THEN v ELSE d[x]]

\* raise HTTPException(status_code=..., detail=...)
HTTPException(status_code, detail) == [status |-> status_code, detail |-> detail]
\* a handler's return value, sent with 200
Returned(body) == [status |-> 200, body |-> body]

\* The worker threads of the pool that runs the handlers, and a thread that
\* is not inside a handler.
Threads == 1..NumThreads
Idle == [pc |-> "idle"]

NoRequest == [op |-> "none"]
NoResponse == [status |-> 0]

---------------------------------------------------------------------------
(* Ledger service: src/cmd/ledger/main.py                                  *)

EntryIds == {ToString(i) : i \in 1..NumEntryIds}

LedgerLine(account, debit, credit) ==
    [account |-> account, debit |-> debit, credit |-> credit]

\* The line lists the callers post: balanced and unbalanced.
BalancedLines == <<LedgerLine("cash", Some(5), None), LedgerLine("hold", None, Some(5))>>
UnbalancedLines == <<LedgerLine("cash", Some(7), None), LedgerLine("hold", None, Some(5))>>
LineLists == {BalancedLines, UnbalancedLines}

\* hash and prev_hash are Optional[str], supplied by the caller.
HashInputs == {None, Some("h1")}

LedgerEntries ==
    [entry_id : EntryIds, txn_id : {"t1"}, timestamp : {"ts"}, currency : {"USD"},
     lines : LineLists, metadata : {None}, hash : HashInputs, prev_hash : HashInputs]

\* The entries that differ in entry_id and lines only.
StoreEntries == {e \in LedgerEntries : e.hash = None /\ e.prev_hash = None}

\* A response that answers a repost with the stored entry instead of 409.
post_ledger_response_lenient(db, entry) ==
    IF entry.entry_id \in DOMAIN db
      THEN Returned(db[entry.entry_id])
      ELSE Returned(entry)

\* The response of POST /ledger for entry against the store db.
post_ledger_response(db, entry) ==
    IF entry.entry_id \in DOMAIN db
      THEN HTTPException(409, "Entry already exists")
      ELSE Returned(entry)

\* A post that skips the duplicate check: every post stores its entry.
post_ledger_entry_overwrite(entry) ==
    /\ request' = [op |-> "post_ledger_entry", arg |-> entry]
    /\ ledger_db' = DictSet(ledger_db, entry.entry_id, entry)
    /\ ledger_order' = IF entry.entry_id \in DOMAIN ledger_db
                         THEN ledger_order
                         ELSE Append(ledger_order, entry.entry_id)
    /\ response' = Returned(entry)
    /\ UNCHANGED <<consents_db, orchestration_db, in_flight>>

post_ledger_entry(entry) ==
    /\ request' = [op |-> "post_ledger_entry", arg |-> entry]
    /\ response' = post_ledger_response(ledger_db, entry)
    /\ IF entry.entry_id \in DOMAIN ledger_db
         THEN UNCHANGED <<ledger_db, ledger_order>>
         ELSE /\ ledger_db' = DictSet(ledger_db, entry.entry_id, entry)
              /\ ledger_order' = Append(ledger_order, entry.entry_id)
    /\ UNCHANGED <<consents_db, orchestration_db, in_flight>>

\* post_ledger_entry on worker thread t, in its two steps.  The handler is a
\* plain def, which FastAPI runs on a thread of its pool, and nothing locks
\* ledger_db: another thread can run between the membership test (line 30)
\* and the assignment (line 32).
post_ledger_entry_check(t, entry) ==
    /\ in_flight[t] = Idle
    /\ IF entry.entry_id \in DOMAIN ledger_db
         THEN /\ request' = [op |-> "post_ledger_entry", arg |-> entry]
              /\ response' = HTTPException(409, "Entry already exists")
              /\ UNCHANGED in_flight
         ELSE /\ in_flight' = [in_flight EXCEPT ![t] = [pc |-> "store", entry |-> entry]]
              /\ UNCHANGED <<request, response>>
    /\ UNCHANGED <<ledger_db, ledger_order, consents_db, orchestration_db>>

post_ledger_entry_store(t) ==
    /\ in_flight[t].pc = "store"
    /\ LET entry == in_flight[t].entry
       IN  /\ ledger_db' = DictSet(ledger_db, entry.entry_id, entry)
           /\ ledger_order' = IF entry.entry_id \in DOMAIN ledger_db
                                THEN ledger_order
                                ELSE Append(ledger_order, entry.entry_id)
           /\ request' = [op |-> "post_ledger_entry", arg |-> entry]
           /\ response' = Returned(entry)
    /\ in_flight' = [in_flight EXCEPT ![t] = Idle]
    /\ UNCHANGED <<consents_db, orchestration_db>>

\* A get that takes the entry out of the store (dict.pop for dict.get).
get_ledger_entry_pop(entry_id) ==
    /\ request' = [op |-> "get_ledger_entry", arg |-> entry_id]
    /\ response' = IF entry_id \in DOMAIN ledger_db
                     THEN Returned(ledger_db[entry_id])
                     ELSE HTTPException(404, "Entry not found")
    /\ ledger_db' = [k \in DOMAIN ledger_db \ {entry_id} |-> ledger_db[k]]
    /\ ledger_order' = SelectSeq(ledger_order, LAMBDA k : k # entry_id)
    /\ UNCHANGED <<consents_db, orchestration_db, in_flight>>

get_ledger_entry(entry_id) ==
    /\ request' = [op |-> "get_ledger_entry", arg |-> entry_id]
    /\ response' = IF entry_id \in DOMAIN ledger_db
                     THEN Returned(ledger_db[entry_id])
                     ELSE HTTPException(404, "Entry not found")
    /\ UNCHANGED <<ledger_db, ledger_order, consents_db, orchestration_db, in_flight>>

---------------------------------------------------------------------------
(* Consent service: src/cmd/consent/main.py                                *)

ConsentIds == {ToString(i) : i \in 1..NumConsentIds}

ConsentLimits(single_txn_usd, daily_usd, max_txn_per_hour) ==
    [single_txn_usd |-> single_txn_usd, daily_usd |-> daily_usd,
     max_txn_per_hour |-> max_txn_per_hour]

CosignRule(threshold_usd, approver_group) ==
    [threshold_usd |-> threshold_usd, approver_group |-> approver_group]

\* The limits the callers send: all positive, and one negative field each.
LimitInputs ==
    {ConsentLimits(500, 1000, 5), ConsentLimits(-1, 1000, 5),
     ConsentLimits(500, -1, 5), ConsentLimits(500, 1000, -1)}

Consents ==
    [id : ConsentIds, agent_id : {"a1"}, owner_party_id : {"p1"},
     rails : {<<"ach", "wire">>}, counterparties_allow : {<<"cp1">>},
     limits : LimitInputs, policy_bundle_version : {"v1"},
     cosign_rule : {CosignRule(1000, "ops")}, created_at : {"ts"},
     revoked : BOOLEAN]

\* A create that skips the duplicate check: every create stores its consent.
create_consent_overwrite(consent) ==
    /\ request' = [op |-> "create_consent", arg |-> consent]
    /\ consents_db' = DictSet(consents_db, consent.id, consent)
    /\ response' = Returned(consent)
    /\ UNCHANGED <<ledger_db, ledger_order, orchestration_db, in_flight>>

\* A create that files the consent under its agent_id.
create_consent_keyed_by_agent(consent) ==
    /\ request' = [op |-> "create_consent", arg |-> consent]
    /\ IF consent.agent_id \in DOMAIN consents_db
         THEN /\ response' = HTTPException(409, "Consent already exists")
              /\ UNCHANGED consents_db
         ELSE /\ consents_db' = DictSet(consents_db, consent.agent_id, consent)
              /\ response' = Returned(consent)
    /\ UNCHANGED <<ledger_db, ledger_order, orchestration_db, in_flight>>

create_consent(consent) ==
    /\ request' = [op |-> "create_consent", arg |-> consent]
    /\ IF consent.id \in DOMAIN consents_db
         THEN /\ response' = HTTPException(409, "Consent already exists")
              /\ UNCHANGED consents_db
         ELSE /\ consents_db' = DictSet(consents_db, consent.id, consent)
              /\ response' = Returned(consent)
    /\ UNCHANGED <<ledger_db, ledger_order, orchestration_db, in_flight>>

get_consent(consent_id) ==
    /\ request' = [op |-> "get_consent", arg |-> consent_id]
    /\ response' = IF consent_id \in DOMAIN consents_db
                     THEN Returned(consents_db[consent_id])
                     ELSE HTTPException(404, "Consent not found")
    /\ UNCHANGED <<ledger_db, ledger_order, consents_db, orchestration_db, in_flight>>

---------------------------------------------------------------------------
(* Orchestration service: src/cmd/orchestration/main.py                    *)

AgentIds == {"a1", "a2"}
Counterparties == {"cp1", "cp2"}
Currencies == {"USD", "EUR"}

\* The amounts the callers send, on both sides of the thresholds of the
\* risk service (1000) and of the router (5000).
Amounts == {0, 500, 999, 1000, 2000, 4999, 5000, 8000}
WorkflowAmounts == {500, 2000, 8000}

OrchestrationRequests ==
    [agent_id : AgentIds, consent_id : {"1"}, amount : WorkflowAmounts,
     currency : {"USD"}, counterparty : Counterparties, memo : {None}]

OrchestrationStatus(workflow_id, status, details) ==
    [workflow_id |-> workflow_id, status |-> status, details |-> details]

\* f"wf_{req.agent_id}_{req.amount}": the text is kept as its three parts; a
\* float's text holds no "_", so two texts are equal exactly when the agent_id
\* and the amount are.
workflow_id_of(req) == <<"wf", req.agent_id, req.amount>>

WorkflowIds == {workflow_id_of(req) : req \in OrchestrationRequests}

\* A start that names the status after the initial state of the state machine.
start_orchestration_created(req) ==
    /\ request' = [op |-> "start_orchestration", arg |-> req]
    /\ orchestration_db' =
         DictSet(orchestration_db, workflow_id_of(req),
                 OrchestrationStatus(workflow_id_of(req), "Created",
                                     Some("Orchestration initiated")))
    /\ response' = Returned(orchestration_db'[workflow_id_of(req)])
    /\ UNCHANGED <<ledger_db, ledger_order, consents_db, in_flight>>

start_orchestration(req) ==
    /\ request' = [op |-> "start_orchestration", arg |-> req]
    /\ orchestration_db' =
         DictSet(orchestration_db, workflow_id_of(req),
                 OrchestrationStatus(workflow_id_of(req), "started",
                                     Some("Orchestration initiated")))
    /\ response' = Returned(orchestration_db'[workflow_id_of(req)])
    /\ UNCHANGED <<ledger_db, ledger_order, consents_db, in_flight>>

get_orchestration_status(workflow_id) ==
    /\ request' = [op |-> "get_orchestration_status", arg |-> workflow_id]
    /\ response' = IF workflow_id \in DOMAIN orchestration_db
                     THEN Returned(orchestration_db[workflow_id])
                     ELSE HTTPException(404, "Workflow not found")
    /\ UNCHANGED <<ledger_db, ledger_order, consents_db, orchestration_db, in_flight>>

---------------------------------------------------------------------------
(* Risk service: src/cmd/risk/main.py.  Scores are counted in tenths:      *)
(* 0.1 is 1, 0.5 is 5, 0.8 is 8, and the range [0, 1] is 0..10.            *)

RiskRequests ==
    [agent_id : AgentIds, amount : Amounts, currency : Currencies,
     counterparty : Counterparties, consent_id : {"1", "2"}, context : {None}]

RiskResponse(score, decision, reason) ==
    [score |-> score, decision |-> decision, reason |-> reason]

\* A scoring that approves whatever the score.
risk_decision_always_approve(req) ==
    LET score == IF req.amount < 1000 THEN 1 ELSE 8
    IN  RiskResponse(score, "approve", "Low amount")

\* What score_risk returns for req.
risk_decision(req) ==
    LET score == IF req.amount < 1000 THEN 1 ELSE 8
    IN  RiskResponse(score,
                     IF score < 5 THEN "approve" ELSE "review",
                     IF score < 5 THEN "Low amount" ELSE "High amount")

score_risk(req) ==
    /\ request' = [op |-> "score_risk", arg |-> req]
    /\ response' = Returned(risk_decision(req))
    /\ UNCHANGED <<ledger_db, ledger_order, consents_db, orchestration_db, in_flight>>

---------------------------------------------------------------------------
(* Router service: src/cmd/router/main.py                                  *)

RouteRequests ==
    [agent_id : AgentIds, amount : Amounts, currency : Currencies,
     counterparty : Counterparties, consent_id : {"1", "2"}, memo : {None}]

RouteResponse(status, rail, plan) ==
    [status |-> status, rail |-> rail, plan |-> plan]

\* "authorize, place hold, submit, settle, release hold, reconcile": the one
\* text the router returns, kept as the steps its commas separate.
PlanText ==
    <<"authorize", "place hold", "submit", "settle", "release hold", "reconcile">>

\* A routing that sends every amount over ach.
route_plan_ach_only(req) == RouteResponse("routed", "ach", PlanText)

\* What route_payment returns for req.
route_plan(req) ==
    RouteResponse("routed", IF req.amount < 5000 THEN "ach" ELSE "wire", PlanText)

route_payment(req) ==
    /\ request' = [op |-> "route_payment", arg |-> req]
    /\ response' = Returned(route_plan(req))
    /\ UNCHANGED <<ledger_db, ledger_order, consents_db, orchestration_db, in_flight>>

---------------------------------------------------------------------------
(* Specifications.                                                         *)

Init ==
    /\ ledger_db = EmptyDict
    /\ ledger_order = <<>>
    /\ consents_db = EmptyDict
    /\ orchestration_db = EmptyDict
    /\ in_flight = [t \in Threads |-> Idle]
    /\ request = NoRequest
    /\ response = NoResponse

PostLedgerEntry == \E entry \in LedgerEntries : post_ledger_entry(entry)
GetLedgerEntry == \E entry_id \in EntryIds : get_ledger_entry(entry_id)

NextLedger == PostLedgerEntry \/ GetLedgerEntry

SpecLedger == Init /\ [][NextLedger]_vars

\* The ledger service with its posts running on the worker threads.
PostLedgerEntryCheck ==
    \E t \in Threads : \E entry \in StoreEntries : post_ledger_entry_check(t, entry)
PostLedgerEntryStore == \E t \in Threads : post_ledger_entry_store(t)

NextLedgerThreads == PostLedgerEntryCheck \/ PostLedgerEntryStore \/ GetLedgerEntry

SpecLedgerThreads == Init /\ [][NextLedgerThreads]_vars

CreateConsent == \E consent \in Consents : create_consent(consent)
GetConsent == \E consent_id \in ConsentIds : get_consent(consent_id)

NextConsent == CreateConsent \/ GetConsent

SpecConsent == Init /\ [][NextConsent]_vars

StartOrchestration == \E req \in OrchestrationRequests : start_orchestration(req)
GetOrchestrationStatus ==
    \E workflow_id \in WorkflowIds : get_orchestration_status(workflow_id)

NextOrchestration == StartOrchestration \/ GetOrchestrationStatus

SpecOrchestration == Init /\ [][NextOrchestration]_vars

\* The orchestration service while it keeps answering calls.
SpecOrchestrationFair == SpecOrchestration /\ WF_vars(NextOrchestration)

ScoreRisk == \E req \in RiskRequests : score_risk(req)

SpecRisk == Init /\ [][ScoreRisk]_vars

RoutePayment == \E req \in RouteRequests : route_payment(req)

SpecRouter == Init /\ [][RoutePayment]_vars

\* The three services that keep records, side by side, on callers' inputs
\* that differ in the entry's lines (StoreEntries), the consent's revoked
\* flag and the request's amount and counterparty only.
StoreConsents == {c \in Consents : c.limits = ConsentLimits(500, 1000, 5)}
StoreRequests ==
    {r \in OrchestrationRequests : r.agent_id = "a1" /\ r.amount \in {500, 8000}}
StoreWorkflowIds == {workflow_id_of(r) : r \in StoreRequests}

NextStores ==
    \/ \E entry \in StoreEntries : post_ledger_entry(entry)
    \/ \E entry_id \in EntryIds : get_ledger_entry(entry_id)
    \/ \E consent \in StoreConsents : create_consent(consent)
    \/ \E consent_id \in ConsentIds : get_consent(consent_id)
    \/ \E req \in StoreRequests : start_orchestration(req)
    \/ \E workflow_id \in StoreWorkflowIds : get_orchestration_status(workflow_id)

SpecStores == Init /\ [][NextStores]_vars

\* All services side by side.
Next == NextLedger \/ NextConsent \/ NextOrchestration \/ ScoreRisk \/ RoutePayment

Spec == Init /\ [][Next]_vars

---------------------------------------------------------------------------
(* Properties of the Ledger service, checked under SpecLedger.             *)

\* The value of an Optional amount in a sum: an absent side adds nothing.
Amount(opt) == IF opt = None THEN 0 ELSE opt[1]

RECURSIVE SumDebit(_)
SumDebit(lines) ==
    IF lines = <<>> THEN 0 ELSE Amount(Head(lines).debit) + SumDebit(Tail(lines))

RECURSIVE SumCredit(_)
SumCredit(lines) ==
    IF lines = <<>> THEN 0 ELSE Amount(Head(lines).credit) + SumCredit(Tail(lines))

Balanced(entry) == SumDebit(entry.lines) = SumCredit(entry.lines)

\* The last call was a post of an entry whose entry_id is stored.
PostOfStoredId ==
    /\ request.op = "post_ledger_entry"
    /\ request.arg.entry_id \in DOMAIN ledger_db

\* C1: every entry the Ledger holds is balanced: the debit values of its
\* lines sum to the same amount as the credit values (an unbalanced post is
\* rejected and stores nothing, so no stored entry is unbalanced).
C1_AcceptedEntriesBalanced ==
    \A k \in DOMAIN ledger_db : Balanced(ledger_db[k])

C4_HashChainLinked ==
    /\ \A k \in DOMAIN ledger_db : ledger_db[k].hash # None
    /\ \A i \in 2..Len(ledger_order) :
         ledger_db[ledger_order[i]].prev_hash = ledger_db[ledger_order[i - 1]].hash

\* C5: entries are immutable and never deleted: an accepted post stores
\* exactly the posted content, no later post or get removes or changes a
\* stored entry, and get of a stored entry_id returns the stored entry.
\* It holds of SpecLedger, where posts do not overlap, and is decided under
\* SpecLedgerThreads, where they do.
C5_EntriesImmutable ==
    [][/\ \A k \in DOMAIN ledger_db :
            k \in DOMAIN ledger_db' /\ ledger_db'[k] = ledger_db[k]
       /\ \A e \in LedgerEntries :
            (post_ledger_entry(e) /\ response'.status = 200)
            => ledger_db'[e.entry_id] = e
       /\ \A k \in DOMAIN ledger_db :
            get_ledger_entry(k) => response' = Returned(ledger_db[k])]_vars

\* C5's case: a get of an entry_id answered after every entry_id was posted.
C5_Witness ==
    /\ request.op = "get_ledger_entry"
    /\ response.status = 200
    /\ response.body = ledger_db[request.arg]
    /\ DOMAIN ledger_db = EntryIds

---------------------------------------------------------------------------
(* Properties of the Consent service, checked under SpecConsent.           *)

\* C9: create of an id that exists fails with 409 (Conflict) and leaves the
\* store unchanged, and get of that id still returns the consent first
\* created, with every field as created.
C9_CreateConflictLeavesStore ==
    [][/\ \A c \in Consents :
            (c.id \in DOMAIN consents_db /\ create_consent(c))
            => /\ response'.status = 409
               /\ consents_db' = consents_db
       /\ \A c \in Consents :
            (create_consent(c) /\ response'.status = 200)
            => consents_db'[c.id] = c
       /\ \A k \in DOMAIN consents_db :
            get_consent(k) => response' = Returned(consents_db[k])]_vars

\* C9's case: a create with an existing id and other content was refused.
C9_Witness ==
    /\ request.op = "create_consent"
    /\ response.status = 409
    /\ request.arg.id \in DOMAIN consents_db
    /\ consents_db[request.arg.id] # request.arg

\* C10: every consent the store holds has non-negative limits.
C10_LimitsNonNegative ==
    \A k \in DOMAIN consents_db :
        /\ consents_db[k].limits.single_txn_usd >= 0
        /\ consents_db[k].limits.daily_usd >= 0
        /\ consents_db[k].limits.max_txn_per_hour >= 0

---------------------------------------------------------------------------
(* Properties of the Orchestration service, checked under                  *)
(* SpecOrchestration (C12: under SpecOrchestrationFair).                   *)

\* C11: every request gets a workflow record of its own: a start never
\* lands on a record that an earlier request started (a different request,
\* or the same one submitted again), so it never overwrites or resets one.
C11_OwnWorkflowPerRequest ==
    [][\A req \in OrchestrationRequests :
         start_orchestration(req)
         => workflow_id_of(req) \notin DOMAIN orchestration_db]_vars

\* The amount of the request that started workflow w, and whether the risk
\* service approves it and the router routes it.
AmountOf(w) == w[3]
RiskApproves(w) == risk_decision([amount |-> AmountOf(w)]).decision = "approve"
RouterRoutes(w) == route_plan([amount |-> AmountOf(w)]).status = "routed"

\* C12: a workflow started for a request that the risk service approves and
\* the router routes eventually reaches Completed, and the ledger then holds
\* at least four balanced entries.
C12_ApprovedWorkflowCompletes ==
    \A w \in WorkflowIds :
        (w \in DOMAIN orchestration_db /\ RiskApproves(w) /\ RouterRoutes(w))
        ~> (/\ w \in DOMAIN orchestration_db
            /\ orchestration_db[w].status = "Completed"
            /\ Cardinality(DOMAIN ledger_db) >= 4
            /\ \A k \in DOMAIN ledger_db : Balanced(ledger_db[k]))

OrchestrationStates ==
    {"Created", "RiskScoring", "RiskApproved", "RiskRejected", "ConsentChecking",
     "ConsentAuthorized", "ConsentRequiresCosign", "ConsentDenied", "Routed",
     "Authorizing", "HoldPlaced", "Submitting", "Settled", "HoldReleased",
     "Reconciled", "Completed", "Failed"}

\* The last call started a workflow.
JustStarted == request.op = "start_orchestration" /\ response.status = 200

---------------------------------------------------------------------------
(* Properties of the Router service, checked under SpecRouter.             *)

\* The last call was routed.
JustRouted == request.op = "route_payment" /\ response.status = 200

\* The rail of the amount band: ach below 5000, wire from 5000 on.
BandRail(amount) == IF amount < 5000 THEN "ach" ELSE "wire"

---------------------------------------------------------------------------
(* Properties of the Risk service, checked under SpecRisk.                 *)

\* The threshold score_risk compares the score with: 0.5, in tenths.
approve_below == 5

\* decision follows from score by the thresholds.
DecisionRule(d, reject_above) ==
    /\ d.score \in 0..10
    /\ d.decision \in {"approve", "review", "reject"}
    /\ d.decision = "approve" <=> d.score < approve_below
    /\ d.decision = "reject" <=> d.score > reject_above
    /\ d.decision = "review" <=> (d.score >= approve_below /\ d.score <= reject_above)

---------------------------------------------------------------------------
(* Properties of the three stores together, checked under SpecStores.      *)

stores == <<ledger_db, ledger_order, consents_db, orchestration_db>>

\* One step of a store db seen through its calls create_op and get_op, the
\* id of a record being IdOf(record): get answers 404 exactly for an id
\* that is not stored and the stored record otherwise, and changes no store;
\* an id is stored from the first successful create on, with the record
\* that create returned, and no stored record changes or goes away.
GetReflectsCreates(db, db_next, create_op, get_op, IdOf(_)) ==
    /\ request'.op = get_op =>
         /\ response'.status = 404 <=> request'.arg \notin DOMAIN db
         /\ request'.arg \in DOMAIN db => response' = Returned(db[request'.arg])
         /\ UNCHANGED stores
    /\ \A k \in DOMAIN db_next \ DOMAIN db :
         /\ request'.op = create_op
         /\ response'.status = 200
         /\ IdOf(response'.body) = k
         /\ db_next[k] = response'.body
    /\ (request'.op = create_op /\ response'.status = 200) =>
         /\ IdOf(response'.body) \in DOMAIN db_next
         /\ db_next[IdOf(response'.body)] = response'.body
    /\ \A k \in DOMAIN db : k \in DOMAIN db_next /\ db_next[k] = db[k]

EntryIdOf(entry) == entry.entry_id
ConsentIdOf(consent) == consent.id
WorkflowIdOf(status) == status.workflow_id

\* C17: for the consent, ledger and workflow stores, get(id) fails with 404
\* (NotFound) exactly when no create, post or start for that id has
\* succeeded; otherwise it returns the stored record, every field as the
\* successful call supplied it; and get changes no store.
C17_GetReflectsCreates ==
    [][/\ GetReflectsCreates(ledger_db, ledger_db', "post_ledger_entry",
                             "get_ledger_entry", EntryIdOf)
       /\ GetReflectsCreates(consents_db, consents_db', "create_consent",
                             "get_consent", ConsentIdOf)
       /\ GetReflectsCreates(orchestration_db, orchestration_db',
                             "start_orchestration", "get_orchestration_status",
                             WorkflowIdOf)
       /\ (request'.op = "post_ledger_entry" /\ response'.status = 200)
            => response'.body = request'.arg
       /\ (request'.op = "create_consent" /\ response'.status = 200)
            => response'.body = request'.arg]_vars

\* C17's case: a get of an id never created was answered 404 while every
\* store holds records.
C17_Witness ==
    /\ request.op = "get_ledger_entry"
    /\ response.status = 404
    /\ request.arg \notin DOMAIN ledger_db
    /\ DOMAIN ledger_db # {}
    /\ DOMAIN consents_db # {}
    /\ DOMAIN orchestration_db # {}

\* Every store is keyed by the identifier of the record it holds.
KeyedById ==
    /\ \A k \in DOMAIN consents_db : consents_db[k].id = k
    /\ \A k \in DOMAIN ledger_db : ledger_db[k].entry_id = k
    /\ \A k \in DOMAIN orchestration_db : orchestration_db[k].workflow_id = k

\* C19: in every state each store is keyed by the identifier of the record
\* it holds, and a call of one service leaves the stores of the other
\* services as they are.
C19_KeyedAndSeparate ==
    [][/\ KeyedById'
       /\ request'.op \in {"post_ledger_entry", "get_ledger_entry"}
            => UNCHANGED <<consents_db, orchestration_db>>
       /\ request'.op \in {"create_consent", "get_consent"}
            => UNCHANGED <<ledger_db, ledger_order, orchestration_db>>
       /\ request'.op \in {"start_orchestration", "get_orchestration_status"}
            => UNCHANGED <<ledger_db, ledger_order, consents_db>>]_vars

\* C19's case: every store holds every record it can.
C19_Witness ==
    /\ KeyedById
    /\ DOMAIN ledger_db = EntryIds
    /\ DOMAIN consents_db = ConsentIds
    /\ DOMAIN orchestration_db = StoreWorkflowIds

---------------------------------------------------------------------------
(* Property of concurrent posts, checked under SpecLedgerThreads.          *)

\* C18: the duplicate check and the insert of a post are atomic with
\* respect to concurrent posts: a post is accepted (stores and is answered
\* 200) only for an entry_id that is not stored at that moment, so of two
\* posts with one entry_id at most one is accepted, and the entry stored
\* under an entry_id is never replaced.
C18_CheckAndInsertAtomic ==
    [][/\ \A t \in Threads :
            post_ledger_entry_store(t)
            => in_flight[t].entry.entry_id \notin DOMAIN ledger_db
       /\ \A k \in DOMAIN ledger_db :
            k \in DOMAIN ledger_db' /\ ledger_db'[k] = ledger_db[k]]_vars

===========================================================================
